---- MODULE Spec2Model ----
(***************************************************************************)
(* Model of the training / evaluation driver of SIMPLE_3Planes             *)
(* (src/atme.py): train(opt) and test(opt) and the __main__ dispatch.      *)
(*                                                                         *)
(* The collaborators (Model, Dataset Provider, Visualizer, persistence)    *)
(* are external to the driver.  Every call the driver makes on them is     *)
(* appended to `log` together with the driver's loop variables at the time *)
(* of the call; the few collaborator effects the driver reads back         *)
(* (model.fake_B, the files written) are kept in `model`, `dirs`, `files`  *)
(* and `ckpt`.                                                             *)
(***************************************************************************)
EXTENDS Integers, Sequences, FiniteSets, TLC

VARIABLES
    pc,            \* position of the driver in atme.py
    opt,           \* the configuration object (argparse namespace)
    opt0,          \* the configuration as parsed, before train()/test() is entered
    dataset,       \* train: the batches the loader yields; test: the slices of the case
    model,         \* the Model instance currently bound to `model`
    n_models,      \* number of create_model() calls so far (instance ids)
    epoch,         \* train: loop variable of line 57
    next_epoch,    \* train: next value the range iterator of line 57 yields
    total_iters,   \* train: line 54
    epoch_iter,    \* train: line 60
    i,             \* train: batch index (line 63); test: case index (line 128)
    t_data,        \* train: line 66; [bound |-> FALSE] until first assigned
    slice_num,     \* train: line 93; [bound |-> FALSE] until first assigned
    cases_paths,   \* test: the manifest column (line 120): slices per case
    j,             \* test: slice index (line 141)
    gen_vol,       \* test: the volume being filled (line 140)
    pos,           \* items the iterator over `dataset` has yielded (lines 63, 141)
    case_pos,      \* items the iterator over cases_paths has yielded (line 128)
    dirs,          \* directories that exist
    files,         \* files written by torch.save / save_nifti: path -> content
    ckpt,          \* checkpoints written by save_networks: tag -> state saved
    log            \* every collaborator call made so far, in order

vars == <<pc, opt, opt0, dataset, model, n_models, epoch, next_epoch, total_iters,
          epoch_iter, i, t_data, slice_num, cases_paths, j, gen_vol, pos,
          case_pos, dirs, files, ckpt, log>>

trainVars == <<epoch, next_epoch, total_iters, epoch_iter, t_data, slice_num, ckpt>>
testVars  == <<cases_paths, j, gen_vol, case_pos, files>>

----------------------------------------------------------------------------
(* Bounds of the model.                                                    *)

MaxBatchSize == 2   \* opt.batch_size ranges over 1..MaxBatchSize
MaxBatches   == 3   \* the training loader yields 0..MaxBatches batches
MaxCases     == 2   \* the manifest holds 0..MaxCases cases
MaxSlices    == 2   \* a short case holds 0..MaxSlices slices

----------------------------------------------------------------------------
(* Small helpers.                                                          *)

Last(s) == s[Len(s)]

\* os.path.join on path components
PathJoin(a, b) == a \o b

\* os.makedirs / util.mkdirs: the directory and its missing parents exist afterwards
MakeDirs(d, p) == d \cup {SubSeq(p, 1, n) : n \in 1..Len(p)}

\* Indices of the log entries with operation op
Calls(op) == {k \in 1..Len(log) : log[k].op = op}

----------------------------------------------------------------------------
(* The configuration: options/base_options.py and options/simple_options.py *)
(* declare the fields and their defaults; the driver reads the ones below.  *)

\* Fields common to both loops, with the defaults of BaseOptions.initialize
BaseDefaults ==
    [ main_root  |-> <<"outputs">>,
      model_root |-> <<"simple_output">>,
      exp_name   |-> <<"runs">>,
      data_name  |-> <<"data">>,
      save_dir   |-> <<"outputs">>,
      data_dir   |-> <<>>,            \* not declared by the parser: absent until assigned
      eval_plane |-> "coronal",
      vol_cube_dim |-> 512,
      global_min |-> 0,
      global_max |-> 0,
      save_nifti |-> TRUE ]

\* Fields of the training options, with the defaults of SimpleOptions.initialize
TrainDefaults ==
    [ display_freq     |-> 400,
      print_freq       |-> 100,
      save_latest_freq |-> 5000,
      save_epoch_freq  |-> 5,
      save_by_iter     |-> FALSE,
      epoch_count      |-> 1,
      n_epochs         |-> 100,
      n_epochs_decay   |-> 500,
      batch_size       |-> 16,
      has_n_save_noisy |-> FALSE ]    \* 'n_save_noisy' in vars(opt)

\* r with the fields of s added or overridden
Merge(r, s) ==
    [f \in (DOMAIN r) \cup (DOMAIN s) |-> IF f \in DOMAIN s THEN s[f] ELSE r[f]]

\* Values the frequencies are drawn from
DisplayFreqs    == {3}
PrintFreqs      == {2, 3}
SaveLatestFreqs == {2, 1000000}
SaveEpochFreqs  == {1, 2}
EpochCounts     == {1, 2}
NEpochs         == {0, 1, 2}
NEpochsDecay    == {0, 1}

\* Configurations of a training run (--isTrain)
TrainOpts ==
    { Merge(Merge(BaseDefaults, TrainDefaults), [isTrain |-> TRUE] @@ o) :
        o \in [ display_freq     : DisplayFreqs,
                print_freq       : PrintFreqs,
                save_latest_freq : SaveLatestFreqs,
                save_epoch_freq  : SaveEpochFreqs,
                save_by_iter     : BOOLEAN,
                epoch_count      : EpochCounts,
                n_epochs         : NEpochs,
                n_epochs_decay   : NEpochsDecay,
                batch_size       : 1..MaxBatchSize,
                has_n_save_noisy : BOOLEAN ] }

\* Values --global_min / --global_max are drawn from
GrayValues == {0, 7}
VolCubeDims == {4}

\* Configurations of an evaluation run (--no-isTrain)
TestOpts ==
    { Merge(Merge(BaseDefaults, TrainDefaults), [isTrain |-> FALSE] @@ o) :
        o \in [ global_min   : GrayValues,
                global_max   : GrayValues,
                save_nifti   : BOOLEAN,
                vol_cube_dim : VolCubeDims ] }

----------------------------------------------------------------------------
(* The collaborators' contract (spec.md section 6): what each call leaves  *)
(* in the Model instance.                                                  *)

NoModel == [id |-> 0, is_setup |-> FALSE, is_eval |-> FALSE, input |-> <<>>,
            n_opt |-> 0, n_lr |-> 0, fake_B |-> <<>>]

create_model(id)            == [NoModel EXCEPT !.id = id]
M_setup(m)                  == [m EXCEPT !.is_setup = TRUE]
M_eval(m)                   == [m EXCEPT !.is_eval = TRUE]
M_set_input(m, data)        == [m EXCEPT !.input = data]
M_optimize_parameters(m)    == [m EXCEPT !.n_opt = @ + 1]
M_update_learning_rate(m)   == [m EXCEPT !.n_lr = @ + 1]
\* what get_current_visuals / get_current_losses return: a snapshot of the model
M_snapshot(m)               == [id |-> m.id, n_opt |-> m.n_opt]

\* The loader of create_atme_train_dataset: n batches of B examples, the last
\* one possibly partial; each batch carries its position in the loader's order.
TrainBatches(n, B, lastSize) ==
    [k \in 1..n |-> [idx |-> k - 1, size |-> IF k = n THEN lastSize ELSE B]]

TrainDatasets(B) ==
    {<<>>} \cup {TrainBatches(n, B, l) : n \in 1..MaxBatches, l \in 1..B}

\* torch.zeros((D, D)) and the 2-D images the generator produces
Zeros2D(D)        == [dim |-> D, content |-> <<"zeros">>]
NetOut(data, c, D) == [dim |-> D, content |-> <<"G", data.case, data.idx, c>>]

\* model.test(): fake_B[b][c] is channel c of the generator's output for the input
\* (one batch entry, NChannels channels)
NChannels == 2
M_test(m, D) == [m EXCEPT !.fake_B = << [c \in 1..NChannels |-> NetOut(m.input, c - 1, D)] >>]

\* The per-case dataset of create_atme_test_dataset: the S slices of case c, in order
TestSlices(c, S) == [k \in 1..S |-> [case |-> c, idx |-> k - 1]]

\* dataset.dataset.crop_volume(vol)
crop_volume(vol) == [vol EXCEPT !.crops = @ + 1]

\* find_grayscale_limits(cases_paths, data_format) returns a (min, max) pair
GrayLimits == {<<0, 0>>, <<1, 9>>}

\* random.randint(a, b): both ends included
RandInt(a, b) == a..b

----------------------------------------------------------------------------
(* The log of collaborator calls.                                          *)

\* A call: the operation, the line of atme.py that makes it, its arguments, the
\* Model instance it is made on (0: not a Model call) and the loop variables
Call(op, line, args, m, e, k, t, ei, jj) ==
    [op |-> op, line |-> line, args |-> args, model |-> m, epoch |-> e, i |-> k,
     total_iters |-> t, epoch_iter |-> ei, j |-> jj]

\* a call made from train(): the loop variables of train() at the call
TCall(op, line, args, m, e, k, t, ei) == Call(op, line, args, m, e, k, t, ei, 0)

\* save_networks(tag) stores the model under tag, replacing an earlier one
Tag(kind, n) == [kind |-> kind, n |-> n]
SaveNetworks(c, tag, m, e, t, at) ==
    {x \in c : x.tag # tag}
      \cup {[tag |-> tag, n_opt |-> m.n_opt, epoch |-> e, total_iters |-> t, at |-> at]}

----------------------------------------------------------------------------
(* Initial state: the process has parsed its options (line 164).           *)

Init ==
    /\ pc = "main"
    /\ opt \in TrainOpts \cup TestOpts
    /\ opt0 = opt
    /\ dataset = <<>>
    /\ model = NoModel
    /\ n_models = 0
    /\ epoch = 0
    /\ next_epoch = 0
    /\ total_iters = 0
    /\ epoch_iter = 0
    /\ i = 0
    /\ t_data = [bound |-> FALSE, at |-> 0]
    /\ slice_num = [bound |-> FALSE, val |-> 0]
    /\ cases_paths = <<>>
    /\ j = 0
    /\ gen_vol = <<>>
    /\ pos = 0
    /\ case_pos = 0
    /\ dirs = {}
    /\ files = {}
    /\ ckpt = {}
    /\ log = <<>>

----------------------------------------------------------------------------
(* train(opt), lines 39-108.                                               *)

\* a range that skips the first epoch
EpochRangeStart_Skip == opt.epoch_count + 1

\* a range that leaves its upper bound out
EpochRangeStop_Exclusive == opt.n_epochs + opt.n_epochs_decay

\* line 57: range(opt.epoch_count, opt.n_epochs + opt.n_epochs_decay + 1)
EpochRangeStart == opt.epoch_count
EpochRangeStop == opt.n_epochs + opt.n_epochs_decay + 1

\* lines 47-53: create_atme_train_dataset(opt), create_model(opt, dataset),
\* model.setup(opt), Visualizer(opt)
TrainSetupCalls(m) ==
    << TCall("create_atme_train_dataset", 47, <<>>, 0, 0, 0, 0, 0),
       TCall("create_model", 51, <<>>, m, 0, 0, 0, 0),
       TCall("setup", 52, <<>>, m, 0, 0, 0, 0),
       TCall("Visualizer", 53, <<>>, 0, 0, 0, 0, 0) >>

\* lines 40-54: mutate opt, make the directories, build dataset, model, visualizer
TrainSetup ==
    /\ pc = "main"
    /\ opt.isTrain
    /\ \E ds \in TrainDatasets(opt.batch_size) :
        LET save_dir == PathJoin(PathJoin(opt.main_root, opt.model_root), opt.exp_name)
            data_dir == PathJoin(PathJoin(opt.main_root, opt.model_root), opt.data_name)
            save_fig_dir == PathJoin(save_dir, <<"figures", "train">>)
            opt1 == [opt EXCEPT !.isTrain = TRUE, !.save_dir = save_dir,
                                !.data_dir = data_dir]
            m == n_models + 1
        IN  /\ opt' = opt1
            /\ dirs' = MakeDirs(MakeDirs(MakeDirs(dirs, save_dir), data_dir), save_fig_dir)
            /\ dataset' = ds
            /\ n_models' = m
            /\ model' = M_setup(create_model(m))
            /\ log' = log \o TrainSetupCalls(m)
    /\ total_iters' = 0
    /\ next_epoch' = EpochRangeStart
    /\ pc' = "epoch_loop"
    /\ UNCHANGED <<opt0, epoch, epoch_iter, i, t_data, slice_num, pos, ckpt>>
    /\ UNCHANGED testVars

\* both counters restart with the epoch
EpochCounters_ResetBoth(t, ei) == [total_iters |-> 0, epoch_iter |-> 0]

\* lines 60, 54: at an epoch's start epoch_iter restarts; total_iters runs on
EpochCounters(t, ei) == [total_iters |-> t, epoch_iter |-> 0]

\* an epoch start that leaves the learning rate alone
EpochStartCalls_NoLr(m, e, k, t) ==
    << TCall("reset", 61, <<>>, 0, e, k, t, 0) >>

\* lines 61-62: visualizer.reset(), model.update_learning_rate()
EpochStartCalls(m, e, k, t) ==
    << TCall("reset", 61, <<>>, 0, e, k, t, 0),
       TCall("update_learning_rate", 62, <<>>, m.id, e, k, t, 0) >>

\* lines 57-62: the range yields an epoch; reset the visualizer, update the rate
EpochStart ==
    /\ pc = "epoch_loop"
    /\ next_epoch < EpochRangeStop
    /\ epoch' = next_epoch
    /\ next_epoch' = next_epoch + 1
    /\ epoch_iter' = EpochCounters(total_iters, epoch_iter).epoch_iter
    /\ total_iters' = EpochCounters(total_iters, epoch_iter).total_iters
    /\ model' = M_update_learning_rate(model)
    /\ log' = log \o EpochStartCalls(model, next_epoch, i, total_iters')
    /\ pos' = 0
    /\ pc' = "batch_loop"
    /\ UNCHANGED <<opt, opt0, dataset, n_models, i, t_data, slice_num, dirs, ckpt>>
    /\ UNCHANGED testVars

\* a train() that waits at the end of the range instead of returning
TrainReturn_Waits ==
    /\ pc = "epoch_loop"
    /\ ~(next_epoch < EpochRangeStop)
    /\ UNCHANGED vars

\* line 57: the range is exhausted; train() returns
TrainReturn ==
    /\ pc = "epoch_loop"
    /\ ~(next_epoch < EpochRangeStop)
    /\ pc' = "done"
    /\ UNCHANGED <<opt, opt0, dataset, model, n_models, i, pos, dirs, log>>
    /\ UNCHANGED trainVars
    /\ UNCHANGED testVars

\* a slice index drawn at random whatever the batch size
SliceNumChoices_AlwaysRandom(k, B) == RandInt(0, B)

\* line 93: i if opt.batch_size == 1 else random.randint(0, opt.batch_size)
SliceNumChoices(k, B) == IF B = 1 THEN {k} ELSE RandInt(0, B)

\* a data time measured at every step
MeasureTData_Always(td, t0, f) == [bound |-> TRUE, at |-> t0]

\* lines 65-66: t_data is measured when the counter, before it is advanced,
\* is a multiple of print_freq ("at" names the step that measured it)
MeasureTData(td, t0, f) == IF t0 % f = 0 THEN [bound |-> TRUE, at |-> t0] ELSE td

\* counters that advance by twice the batch size
Advance_Double(counter, B) == counter + 2 * B

\* counters that count iterations instead of examples
Advance_One(counter, B) == counter + 1

\* lines 68-69: both counters advance by opt.batch_size, whatever the batch holds
Advance(counter, B) == counter + B

\* a cadence that fires when the counter has just passed a multiple
Fires_Passed(t, f) == t % f < 2

\* lines 76, 81, 88: a cadence fires on exact multiples of its frequency
Fires(t, f) == t % f = 0

\* lines 70-74: set_input(data[, epoch]) then optimize_parameters()
OptimizeCalls(m, data, e, k, t, ei, withEpoch) ==
    << IF withEpoch THEN TCall("set_input", 71, <<data, e>>, m.id, e, k, t, ei)
                    ELSE TCall("set_input", 73, <<data>>, m.id, e, k, t, ei),
       TCall("optimize_parameters", 74, <<>>, m.id, e, k, t, ei) >>

\* lines 76-79
DisplayCalls(m, e, k, t, ei, f) ==
    IF Fires(t, f)
    THEN << TCall("compute_visuals", 78, <<>>, m.id, e, k, t, ei) >>
    ELSE << >>

\* lines 81-84: print_current_losses(epoch, epoch_iter, losses, t_comp, t_data)
PrintCalls(m, e, k, t, ei, f, td) ==
    IF Fires(t, f)
    THEN << TCall("get_current_losses", 82, <<>>, m.id, e, k, t, ei),
            TCall("print_current_losses", 84, <<e, ei, M_snapshot(m), td.at>>, 0, e, k, t, ei) >>
    ELSE << >>

\* a suffix that always names the iteration
SaveSuffix_AlwaysIter(t, byIter) == Tag("iter_", t)

\* a suffix that ignores save_by_iter
SaveSuffix_AlwaysLatest(t, byIter) == Tag("latest", 0)

\* line 90: 'iter_%d' % total_iters if opt.save_by_iter else 'latest'
SaveSuffix(t, byIter) == IF byIter THEN Tag("iter_", t) ELSE Tag("latest", 0)

\* lines 88-94: save_networks(save_suffix), get_current_visuals(),
\* save_atme_images(visuals, save_fig_dir, slice_num, iter_num=total_iters, epoch=epoch);
\* the slice_num passed is the value the variable slice_num holds after the step
SaveLatestCalls(m, e, k, t, ei, f, byIter) ==
    IF Fires(t, f)
    THEN << TCall("save_networks", 91, <<SaveSuffix(t, byIter)>>, m.id, e, k, t, ei),
            TCall("get_current_visuals", 92, <<>>, m.id, e, k, t, ei),
            TCall("save_atme_images", 94, <<M_snapshot(m), t, e>>, 0, e, k, t, ei) >>
    ELSE << >>

\* lines 63-96: one iteration of the batch loop
BatchStep ==
    /\ pc = "batch_loop"
    /\ pos < Len(dataset)
    /\ \E sn \in SliceNumChoices(pos, opt.batch_size) :
        LET k    == pos
            data == dataset[pos + 1]
            td   == MeasureTData(t_data, total_iters, opt.print_freq)
            t    == Advance(total_iters, opt.batch_size)
            ei   == Advance(epoch_iter, opt.batch_size)
            m    == M_optimize_parameters(M_set_input(model, data))
            printFires == Fires(t, opt.print_freq)
            saveFires  == Fires(t, opt.save_latest_freq)
            head == log \o OptimizeCalls(m, data, epoch, k, t, ei, opt.has_n_save_noisy)
                        \o DisplayCalls(m, epoch, k, t, ei, opt.display_freq)
        IN  /\ i' = k
            /\ pos' = pos + 1
            /\ t_data' = td
            /\ total_iters' = t
            /\ epoch_iter' = ei
            /\ model' = m
            /\ IF printFires /\ ~td.bound
               THEN \* line 84 reads t_data before any assignment: UnboundLocalError
                    /\ log' = head \o << TCall("get_current_losses", 82, <<>>, m.id, epoch, k, t, ei) >>
                    /\ pc' = "aborted"
                    /\ UNCHANGED <<slice_num, ckpt>>
               ELSE /\ log' = head
                          \o PrintCalls(m, epoch, k, t, ei, opt.print_freq, td)
                          \o SaveLatestCalls(m, epoch, k, t, ei, opt.save_latest_freq,
                                             opt.save_by_iter)
                    /\ slice_num' = IF saveFires THEN [bound |-> TRUE, val |-> sn]
                                    ELSE slice_num
                    /\ ckpt' = IF saveFires
                               THEN SaveNetworks(ckpt, SaveSuffix(t, opt.save_by_iter), m,
                                                 epoch, t, Len(log') - 2)
                               ELSE ckpt
                    /\ pc' = "batch_loop"
    /\ UNCHANGED <<opt, opt0, dataset, n_models, epoch, next_epoch, dirs>>
    /\ UNCHANGED testVars

\* an epoch-level checkpoint decided by the iteration counter
EpochSaveCalls_ByIters(m, e, k, t, ei, f) ==
    IF t % f = 0
    THEN << TCall("save_networks", 99, <<Tag("latest", 0)>>, m.id, e, k, t, ei),
            TCall("save_networks", 100, <<Tag("epoch", e)>>, m.id, e, k, t, ei) >>
    ELSE << >>

\* lines 97-100: the epoch-level checkpoint
EpochSaveCalls(m, e, k, t, ei, f) ==
    IF e % f = 0
    THEN << TCall("save_networks", 99, <<Tag("latest", 0)>>, m.id, e, k, t, ei),
            TCall("save_networks", 100, <<Tag("epoch", e)>>, m.id, e, k, t, ei) >>
    ELSE << >>

\* an epoch log written only when the epoch-level checkpoint was made
EpochLogCalls_OnlyOnSave(m, e, k, t, ei) ==
    IF e % opt.save_epoch_freq = 0
    THEN << TCall("get_current_losses", 103, <<>>, m.id, e, k, t, ei),
            TCall("save_D_losses", 103, <<M_snapshot(m)>>, 0, e, k, t, ei),
            TCall("get_current_losses", 105, <<>>, m.id, e, k, t, ei),
            TCall("save_to_tensorboard_writer", 106, <<e, M_snapshot(m)>>, 0, e, k, t, ei) >>
    ELSE << >>

\* lines 103-106: the losses go to the D-loss log and to tensorboard
EpochLogCalls(m, e, k, t, ei) ==
    << TCall("get_current_losses", 103, <<>>, m.id, e, k, t, ei),
       TCall("save_D_losses", 103, <<M_snapshot(m)>>, 0, e, k, t, ei),
       TCall("get_current_losses", 105, <<>>, m.id, e, k, t, ei),
       TCall("save_to_tensorboard_writer", 106, <<e, M_snapshot(m)>>, 0, e, k, t, ei) >>

\* lines 97-108: the dataset is exhausted; close the epoch
EpochEnd ==
    /\ pc = "batch_loop"
    /\ ~(pos < Len(dataset))
    /\ LET saves == EpochSaveCalls(model, epoch, i, total_iters, epoch_iter,
                                   opt.save_epoch_freq)
       IN  /\ log' = log \o saves
                         \o EpochLogCalls(model, epoch, i, total_iters, epoch_iter)
           /\ ckpt' = IF saves = << >> THEN ckpt
                      ELSE SaveNetworks(
                             SaveNetworks(ckpt, Tag("latest", 0), model, epoch,
                                          total_iters, Len(log) + 1),
                             Tag("epoch", epoch), model, epoch, total_iters, Len(log) + 2)
    /\ pc' = "epoch_loop"
    /\ UNCHANGED <<opt, opt0, dataset, model, n_models, epoch, next_epoch, total_iters,
                   epoch_iter, i, t_data, slice_num, pos, dirs>>
    /\ UNCHANGED testVars

----------------------------------------------------------------------------
(* test(opt), lines 110-158.                                               *)

\* line 123
plot_slice == 100

\* Numbers of slices a case may hold
SliceCounts == (0..MaxSlices) \cup {plot_slice + 1}

\* a call made from test(): the case and slice index of test() at the call
ECall(op, line, args, m, c, s) == Call(op, line, args, m, 0, c, 0, 0, s)

\* one directory shared by all the cases
CaseSaveDir_Shared(o, c) == PathJoin(o.data_dir, <<"generation", <<"case_", 0>>>>)

\* line 131: os.path.join(opt.data_dir, 'generation', f'case_{i}')
CaseSaveDir(o, c) == PathJoin(o.data_dir, <<"generation", <<"case_", c>>>>)

\* a range computed as soon as one limit is 0
NeedsLimits_Either(o) == o.global_min = 0 \/ o.global_max = 0

\* lines 125-126: the range is computed only when both limits are 0
NeedsLimits(o) == o.global_min = 0 /\ o.global_max = 0

\* lines 111-126: mutate opt, make the figure directory, read the manifest,
\* fix the grayscale range
TestSetup ==
    /\ pc = "main"
    /\ ~opt.isTrain
    /\ \E n \in 0..MaxCases, lim \in GrayLimits :
        LET save_dir == PathJoin(PathJoin(opt.main_root, opt.model_root), opt.exp_name)
            data_dir == PathJoin(PathJoin(opt.main_root, opt.model_root), opt.data_name)
            save_fig_dir == PathJoin(save_dir, <<"figures", "test">>)
            opt1 == [opt EXCEPT !.isTrain = FALSE, !.save_dir = save_dir,
                                !.data_dir = data_dir]
            paths == [k \in 1..n |-> <<opt.eval_plane, k - 1>>]
        IN  /\ dirs' = MakeDirs(dirs, save_fig_dir)
            /\ cases_paths' = paths
            /\ IF NeedsLimits(opt1)
               THEN /\ opt' = [opt1 EXCEPT !.global_min = lim[1], !.global_max = lim[2]]
                    /\ log' = log \o << ECall("find_grayscale_limits", 126, <<paths, lim>>, 0, 0, 0) >>
               ELSE /\ opt' = opt1
                    /\ log' = log
    /\ case_pos' = 0
    /\ pc' = "case_loop"
    /\ UNCHANGED <<opt0, dataset, model, n_models, i, j, gen_vol, pos, files>>
    /\ UNCHANGED trainVars

\* line 140: torch.zeros((len(dataset), opt.vol_cube_dim, opt.vol_cube_dim))
ZeroVolume(S, D) ==
    [shape |-> <<S, D, D>>, data |-> [k \in 1..S |-> Zeros2D(D)],
     writes |-> [k \in 1..S |-> 0],     \* how often each slot was assigned
     crops |-> 0]

\* a case model that is never put in evaluation mode
CaseModelCalls_NoEval(m, c, s) ==
    << ECall("create_model", 136, <<>>, m, c, s),
       ECall("setup", 137, <<>>, m, c, s) >>

\* lines 136-138: create_model(opt), model.setup(opt), model.eval()
CaseModelCalls(m, c, s) ==
    << ECall("create_model", 136, <<>>, m, c, s),
       ECall("setup", 137, <<>>, m, c, s),
       ECall("eval", 138, <<>>, m, c, s) >>

\* lines 128-140: next case: its directory, its dataset, a new model, an empty volume
CaseStart ==
    /\ pc = "case_loop"
    /\ case_pos < Len(cases_paths)
    /\ \E S \in SliceCounts :
        LET c  == case_pos
            ds == TestSlices(c, S)
            m  == n_models + 1
        IN  /\ i' = c
            /\ case_pos' = case_pos + 1
            /\ dirs' = IF CaseSaveDir(opt, c) \in dirs THEN dirs
                       ELSE MakeDirs(dirs, CaseSaveDir(opt, c))
            /\ dataset' = ds
            /\ n_models' = m
            /\ model' = M_eval(M_setup(create_model(m)))
            /\ gen_vol' = ZeroVolume(Len(ds), opt.vol_cube_dim)
            /\ log' = log \o << ECall("create_atme_test_dataset", 135,
                                      <<opt.global_min, opt.global_max, cases_paths[c + 1], c>>,
                                      0, c, j) >>
                         \o CaseModelCalls(m, c, j)
    /\ pos' = 0
    /\ pc' = "slice_loop"
    /\ UNCHANGED <<opt, opt0, cases_paths, j, files>>
    /\ UNCHANGED trainVars

\* a store that takes the last channel of the output
StoreSlice_LastChannel(vol, s, fake_B) ==
    [vol EXCEPT !.data[s + 1] = fake_B[1][Len(fake_B[1])], !.writes[s + 1] = @ + 1]

\* line 144: gen_vol[j, :, :] = model.fake_B[0, 0, :, :]
StoreSlice(vol, s, fake_B) ==
    [vol EXCEPT !.data[s + 1] = fake_B[1][1], !.writes[s + 1] = @ + 1]

\* a preview at every multiple of plot_slice
PreviewCalls_Multiples(m, c, s) ==
    IF s % plot_slice = 0
    THEN << ECall("get_current_visuals", 147, <<>>, m.id, c, s),
            ECall("save_atme_images", 148, <<M_snapshot(m), s, c>>, 0, c, s) >>
    ELSE << >>

\* lines 146-148: the preview of slice plot_slice
PreviewCalls(m, c, s) ==
    IF s = plot_slice
    THEN << ECall("get_current_visuals", 147, <<>>, m.id, c, s),
            ECall("save_atme_images", 148, <<M_snapshot(m), s, c>>, 0, c, s) >>
    ELSE << >>

\* lines 141-148: one slice: set the input, run the generator, store its output
SliceStep ==
    /\ pc = "slice_loop"
    /\ pos < Len(dataset)
    /\ LET s    == pos
           data == dataset[pos + 1]
           m    == M_test(M_set_input(model, data), opt.vol_cube_dim)
       IN  /\ j' = s
           /\ pos' = pos + 1
           /\ model' = m
           /\ gen_vol' = StoreSlice(gen_vol, s, m.fake_B)
           /\ log' = log \o << ECall("set_input", 142, <<data>>, m.id, i, s),
                               ECall("test", 143, <<>>, m.id, i, s) >>
                         \o PreviewCalls(m, i, s)
    /\ pc' = "slice_loop"
    /\ UNCHANGED <<opt, opt0, dataset, n_models, i, cases_paths, case_pos, dirs, files>>
    /\ UNCHANGED trainVars

\* torch.save / save_nifti write a file, replacing an earlier one of that path
WriteFile(fs, path, content) ==
    {f \in fs : f.path # path} \cup {[path |-> path, content |-> content]}

\* lines 151-158: the slices are exhausted: crop the volume and persist it
CaseEnd ==
    /\ pc = "slice_loop"
    /\ ~(pos < Len(dataset))
    /\ LET vol == crop_volume(gen_vol)
           pt  == PathJoin(CaseSaveDir(opt, i), <<"atme_vol.pt">>)
           nii == PathJoin(CaseSaveDir(opt, i), <<"atme_vol.nii.gz">>)
       IN  /\ gen_vol' = vol
           /\ files' = IF opt.save_nifti
                       THEN WriteFile(WriteFile(files, pt, vol), nii, vol)
                       ELSE WriteFile(files, pt, vol)
           /\ log' = log \o << ECall("crop_volume", 151, <<>>, 0, i, j),
                               ECall("torch.save", 154, <<pt>>, 0, i, j) >>
                         \o (IF opt.save_nifti
                             THEN << ECall("save_nifti", 158, <<nii>>, 0, i, j) >>
                             ELSE << >>)
    /\ pc' = "case_loop"
    /\ UNCHANGED <<opt, opt0, dataset, model, n_models, i, cases_paths, j, pos, case_pos, dirs>>
    /\ UNCHANGED trainVars

\* line 128: the manifest is exhausted; test() returns
TestReturn ==
    /\ pc = "case_loop"
    /\ ~(case_pos < Len(cases_paths))
    /\ pc' = "done"
    /\ UNCHANGED <<opt, opt0, dataset, model, n_models, i, pos, dirs, log>>
    /\ UNCHANGED trainVars
    /\ UNCHANGED testVars

----------------------------------------------------------------------------
(* lines 163-168: the process runs train() or test(), by opt.isTrain.      *)

Next ==
    \/ TrainSetup \/ EpochStart \/ BatchStep \/ EpochEnd \/ TrainReturn
    \/ TestSetup \/ CaseStart \/ SliceStep \/ CaseEnd \/ TestReturn

Spec == Init /\ [][Next]_vars

----------------------------------------------------------------------------
(* Exceptions. atme.py has no try statement: an exception raised by a      *)
(* collaborator leaves train() or test(), then __main__, and the process   *)
(* ends. A handler whose n-th call raises has made its first n - 1 calls.  *)

\* the log entry of a call that raised instead of returning
Raised(c) == [c EXCEPT !.op = "raise", !.args = <<c.op>>]

\* what a handler logs when the n-th of its calls raises
UpToRaise(calls, n) == SubSeq(calls, 1, n - 1) \o << Raised(calls[n]) >>

\* has a call of op returned when the n-th call raises
Returned(calls, n, op) == \E x \in 1..(n - 1) : calls[x].op = op

\* a handler that swallows the exception and goes on with its loop
OnRaise_Resume(at) == at

\* where control goes when an exception leaves the loop at `at`: nothing in
\* train(), test() or __main__ (lines 39-168) catches it
OnRaise(at) == "aborted"

\* lines 63, 141: the iteration over the dataset raises
DatasetRaises ==
    /\ pc \in {"batch_loop", "slice_loop"}
    /\ log' = log \o << Raised(Call("next", IF pc = "batch_loop" THEN 63 ELSE 141, <<>>, 0,
                                    epoch, i, total_iters, epoch_iter, j)) >>
    /\ pc' = OnRaise(pc)
    /\ UNCHANGED <<opt, opt0, dataset, model, n_models, i, pos, dirs>>
    /\ UNCHANGED trainVars
    /\ UNCHANGED testVars

\* lines 40-53: one of the constructors raises
TrainSetupRaises ==
    /\ pc = "main"
    /\ opt.isTrain
    /\ \E ds \in TrainDatasets(opt.batch_size), n \in 1..4 :
        LET save_dir == PathJoin(PathJoin(opt.main_root, opt.model_root), opt.exp_name)
            data_dir == PathJoin(PathJoin(opt.main_root, opt.model_root), opt.data_name)
            save_fig_dir == PathJoin(save_dir, <<"figures", "train">>)
            m == n_models + 1
        IN  /\ opt' = [opt EXCEPT !.isTrain = TRUE, !.save_dir = save_dir,
                                  !.data_dir = data_dir]
            /\ dirs' = MakeDirs(MakeDirs(MakeDirs(dirs, save_dir), data_dir), save_fig_dir)
            /\ dataset' = IF n > 1 THEN ds ELSE dataset
            /\ n_models' = IF n > 2 THEN m ELSE n_models
            /\ model' = IF n > 3 THEN M_setup(create_model(m))
                        ELSE IF n > 2 THEN create_model(m) ELSE model
            /\ log' = log \o UpToRaise(TrainSetupCalls(m), n)
    /\ pc' = OnRaise("main")
    /\ UNCHANGED <<opt0, i, pos>>
    /\ UNCHANGED trainVars
    /\ UNCHANGED testVars

\* lines 57-62: visualizer.reset() or model.update_learning_rate() raises
EpochStartRaises ==
    /\ pc = "epoch_loop"
    /\ next_epoch < EpochRangeStop
    /\ \E n \in 1..2 :
        log' = log \o UpToRaise(EpochStartCalls(model, next_epoch, i, total_iters), n)
    /\ epoch' = next_epoch
    /\ next_epoch' = next_epoch + 1
    /\ epoch_iter' = 0
    /\ pc' = OnRaise("epoch_loop")
    /\ UNCHANGED <<opt, opt0, dataset, model, n_models, total_iters, i, t_data, slice_num,
                   pos, dirs, ckpt>>
    /\ UNCHANGED testVars

\* lines 63-94: a call of the batch loop's body raises
BatchStepRaises ==
    /\ pc = "batch_loop"
    /\ pos < Len(dataset)
    /\ LET k    == pos
           data == dataset[pos + 1]
           td   == MeasureTData(t_data, total_iters, opt.print_freq)
           t    == Advance(total_iters, opt.batch_size)
           ei   == Advance(epoch_iter, opt.batch_size)
           m    == M_optimize_parameters(M_set_input(model, data))
           calls == OptimizeCalls(m, data, epoch, k, t, ei, opt.has_n_save_noisy)
                      \o DisplayCalls(m, epoch, k, t, ei, opt.display_freq)
                      \o PrintCalls(m, epoch, k, t, ei, opt.print_freq, td)
                      \o SaveLatestCalls(m, epoch, k, t, ei, opt.save_latest_freq,
                                         opt.save_by_iter)
       IN  \E n \in 1..Len(calls), sn \in SliceNumChoices(pos, opt.batch_size) :
            /\ i' = k
            /\ pos' = pos + 1
            /\ t_data' = td
            /\ total_iters' = t
            /\ epoch_iter' = ei
            /\ model' = IF n > 2 THEN m
                        ELSE IF n > 1 THEN M_set_input(model, data) ELSE model
            /\ log' = log \o UpToRaise(calls, n)
            /\ ckpt' = IF Returned(calls, n, "save_networks")
                       THEN SaveNetworks(ckpt, SaveSuffix(t, opt.save_by_iter), m, epoch, t,
                                         Len(log) + Len(calls) - 2)
                       ELSE ckpt
            /\ slice_num' = IF Returned(calls, n, "get_current_visuals")
                            THEN [bound |-> TRUE, val |-> sn]
                            ELSE slice_num
    /\ pc' = OnRaise("batch_loop")
    /\ UNCHANGED <<opt, opt0, dataset, n_models, epoch, next_epoch, dirs>>
    /\ UNCHANGED testVars

\* lines 97-106: a call at the epoch's end raises
EpochEndRaises ==
    /\ pc = "batch_loop"
    /\ ~(pos < Len(dataset))
    /\ LET saves == EpochSaveCalls(model, epoch, i, total_iters, epoch_iter,
                                   opt.save_epoch_freq)
           calls == saves \o EpochLogCalls(model, epoch, i, total_iters, epoch_iter)
       IN  \E n \in 1..Len(calls) :
            LET latest == SaveNetworks(ckpt, Tag("latest", 0), model, epoch,
                                       total_iters, Len(log) + 1)
            IN  /\ log' = log \o UpToRaise(calls, n)
                /\ ckpt' = IF saves = << >> \/ n = 1 THEN ckpt
                           ELSE IF n = 2 THEN latest
                           ELSE SaveNetworks(latest, Tag("epoch", epoch), model, epoch,
                                             total_iters, Len(log) + 2)
    /\ pc' = OnRaise("epoch_loop")
    /\ UNCHANGED <<opt, opt0, dataset, model, n_models, epoch, next_epoch, total_iters,
                   epoch_iter, i, t_data, slice_num, pos, dirs>>
    /\ UNCHANGED testVars

\* lines 111-126: find_grayscale_limits raises
TestSetupRaises ==
    /\ pc = "main"
    /\ ~opt.isTrain
    /\ \E n \in 0..MaxCases :
        LET save_dir == PathJoin(PathJoin(opt.main_root, opt.model_root), opt.exp_name)
            data_dir == PathJoin(PathJoin(opt.main_root, opt.model_root), opt.data_name)
            save_fig_dir == PathJoin(save_dir, <<"figures", "test">>)
            opt1 == [opt EXCEPT !.isTrain = FALSE, !.save_dir = save_dir,
                                !.data_dir = data_dir]
            paths == [k \in 1..n |-> <<opt.eval_plane, k - 1>>]
        IN  /\ NeedsLimits(opt1)
            /\ opt' = opt1
            /\ dirs' = MakeDirs(dirs, save_fig_dir)
            /\ cases_paths' = paths
            /\ log' = log \o << Raised(ECall("find_grayscale_limits", 126, <<>>, 0, 0, 0)) >>
    /\ pc' = OnRaise("main")
    /\ UNCHANGED <<opt0, dataset, model, n_models, i, j, gen_vol, pos, case_pos, files>>
    /\ UNCHANGED trainVars

\* lines 128-138: the case's dataset or model cannot be built
CaseStartRaises ==
    /\ pc = "case_loop"
    /\ case_pos < Len(cases_paths)
    /\ \E S \in SliceCounts, n \in 1..4 :
        LET c  == case_pos
            ds == TestSlices(c, S)
            m  == n_models + 1
            calls == << ECall("create_atme_test_dataset", 135,
                              <<opt.global_min, opt.global_max, cases_paths[c + 1], c>>,
                              0, c, j) >>
                       \o CaseModelCalls(m, c, j)
        IN  /\ i' = c
            /\ case_pos' = case_pos + 1
            /\ dirs' = IF CaseSaveDir(opt, c) \in dirs THEN dirs
                       ELSE MakeDirs(dirs, CaseSaveDir(opt, c))
            /\ dataset' = IF n > 1 THEN ds ELSE dataset
            /\ n_models' = IF n > 2 THEN m ELSE n_models
            /\ model' = IF n > 3 THEN M_setup(create_model(m))
                        ELSE IF n > 2 THEN create_model(m) ELSE model
            /\ log' = log \o UpToRaise(calls, n)
    /\ pc' = OnRaise("case_loop")
    /\ UNCHANGED <<opt, opt0, cases_paths, j, gen_vol, pos, files>>
    /\ UNCHANGED trainVars

\* lines 141-148: a call of the slice loop's body raises
SliceStepRaises ==
    /\ pc = "slice_loop"
    /\ pos < Len(dataset)
    /\ LET s    == pos
           data == dataset[pos + 1]
           m    == M_test(M_set_input(model, data), opt.vol_cube_dim)
           calls == << ECall("set_input", 142, <<data>>, m.id, i, s),
                       ECall("test", 143, <<>>, m.id, i, s) >>
                      \o PreviewCalls(m, i, s)
       IN  \E n \in 1..Len(calls) :
            /\ model' = IF n > 2 THEN m
                        ELSE IF n > 1 THEN M_set_input(model, data) ELSE model
            /\ gen_vol' = IF n > 2 THEN StoreSlice(gen_vol, s, m.fake_B) ELSE gen_vol
            /\ log' = log \o UpToRaise(calls, n)
    /\ j' = pos
    /\ pos' = pos + 1
    /\ pc' = OnRaise("slice_loop")
    /\ UNCHANGED <<opt, opt0, dataset, n_models, i, cases_paths, case_pos, dirs, files>>
    /\ UNCHANGED trainVars

\* lines 151-158: crop_volume or a file write raises
CaseEndRaises ==
    /\ pc = "slice_loop"
    /\ ~(pos < Len(dataset))
    /\ LET vol == crop_volume(gen_vol)
           pt  == PathJoin(CaseSaveDir(opt, i), <<"atme_vol.pt">>)
           nii == PathJoin(CaseSaveDir(opt, i), <<"atme_vol.nii.gz">>)
           calls == << ECall("crop_volume", 151, <<>>, 0, i, j),
                       ECall("torch.save", 154, <<pt>>, 0, i, j) >>
                      \o (IF opt.save_nifti
                          THEN << ECall("save_nifti", 158, <<nii>>, 0, i, j) >>
                          ELSE << >>)
       IN  \E n \in 1..Len(calls) :
            /\ gen_vol' = IF n > 1 THEN vol ELSE gen_vol
            /\ files' = IF n > 2 THEN WriteFile(files, pt, vol) ELSE files
            /\ log' = log \o UpToRaise(calls, n)
    /\ pc' = OnRaise("case_loop")
    /\ UNCHANGED <<opt, opt0, dataset, model, n_models, i, cases_paths, j, pos, case_pos, dirs>>
    /\ UNCHANGED trainVars

\* the runs in which collaborators may raise
NextFail ==
    \/ Next
    \/ DatasetRaises
    \/ TrainSetupRaises \/ EpochStartRaises \/ BatchStepRaises \/ EpochEndRaises
    \/ TestSetupRaises \/ CaseStartRaises \/ SliceStepRaises \/ CaseEndRaises

\* the configurations the runs with exceptions start from
InitFail ==
    /\ Init
    /\ opt.isTrain =>
        /\ opt.epoch_count = 1 /\ opt.n_epochs_decay = 0
        /\ opt.print_freq = 2
    /\ ~opt.isTrain => opt.global_max = 0

SpecFail == InitFail /\ [][NextFail]_vars

\* The process is sequential and every call returns or raises: as long as a
\* statement is left to run, one runs.
FairSpec == SpecFail /\ WF_vars(NextFail)

----------------------------------------------------------------------------
(* Reading the log.                                                        *)

\* the run is a training run: __main__ dispatched to train()
IsTrainRun == opt0.isTrain

\* log indices of the calls of op made from source line ln
CallsAt(op, ln) == {k \in 1..Len(log) : log[k].op = op /\ log[k].line = ln}

\* log indices of the optimization steps
Steps == Calls("optimize_parameters")

\* the epochs the range of line 57 has yielded so far
ExecutedEpochs == IF pc = "main" \/ ~IsTrainRun THEN {} ELSE EpochRangeStart..(next_epoch - 1)

\* the epochs whose body has run to its end
FinishedEpochs == {e \in ExecutedEpochs : e < epoch \/ pc \in {"epoch_loop", "done"}}

----------------------------------------------------------------------------
(* C1 *)

\* The calls (op, ln) are a cadence of frequency f over the optimization steps
\* `steps`: after every step, with t the counter after the step, the call is
\* made once if t % f = 0 and not at all otherwise; every such call follows a
\* step with that t, with no other step in between; successive calls carry
\* strictly increasing t.
CadenceOK(steps, op, ln, f) ==
    LET calls == CallsAt(op, ln)
    IN  /\ \A k \in steps :
            Cardinality({x \in calls : log[x].total_iters = log[k].total_iters})
                = IF log[k].total_iters % f = 0 THEN 1 ELSE 0
        /\ \A x \in calls :
            /\ log[x].total_iters % f = 0
            /\ \E k \in steps :
                /\ k < x
                /\ log[k].total_iters = log[x].total_iters
                /\ \A l \in steps : ~(k < l /\ l < x)
        /\ \A x, y \in calls : x < y => log[x].total_iters < log[y].total_iters

\* C1: in train(), each of the three cadences (display_freq -> compute_visuals,
\* print_freq -> print_current_losses, save_latest_freq -> save_networks +
\* save_atme_images) fires at a step iff the global counter t after the step
\* satisfies t mod f = 0, exactly once for each such t, at strictly increasing t,
\* each decided by its own frequency only.
C1_CadenceExactMultiples ==
    IsTrainRun =>
        LET steps == Steps
        IN  /\ \A k, l \in steps : k < l => log[k].total_iters < log[l].total_iters
            /\ CadenceOK(steps, "compute_visuals", 78, opt.display_freq)
            /\ CadenceOK(steps, "print_current_losses", 84, opt.print_freq)
            /\ CadenceOK(steps, "save_networks", 91, opt.save_latest_freq)
            /\ CadenceOK(steps, "save_atme_images", 94, opt.save_latest_freq)

\* a finished run in which one step fired display but not print, one fired
\* the save but not display, and one fired nothing
C1_Witness ==
    /\ IsTrainRun /\ pc = "done"
    /\ \E x \in CallsAt("compute_visuals", 78) :
        log[x].total_iters % opt.print_freq # 0
    /\ \E x \in CallsAt("save_networks", 91) :
        log[x].total_iters % opt.display_freq # 0
    /\ \E k \in Steps :
        \A x \in 1..Len(log) :
            log[x].total_iters = log[k].total_iters => log[x].line \notin {78, 84, 91, 94}

----------------------------------------------------------------------------
(* C2 *)

\* C2: in train(), update_learning_rate() is invoked exactly once in every
\* executed epoch, before the first optimize_parameters() of that epoch and
\* after the last one of the previous epochs; also for an epoch without batches.
C2_LrOncePerEpochFirst ==
    IsTrainRun =>
        LET steps == Steps
            lrs   == Calls("update_learning_rate")
            done  == ExecutedEpochs
        IN  /\ \A x \in steps : log[x].epoch \in done
            /\ \A u \in lrs : log[u].epoch \in done
            /\ \A e \in done :
                /\ Cardinality({u \in lrs : log[u].epoch = e}) = 1
                /\ \A u \in lrs, x \in steps :
                    log[u].epoch = e =>
                        /\ log[x].epoch = e => u < x
                        /\ log[x].epoch < e => x < u

\* a finished run of at least two epochs of at least two batches each
C2_Witness ==
    /\ IsTrainRun /\ pc = "done"
    /\ Cardinality(ExecutedEpochs) >= 2
    /\ Len(dataset) >= 2
    /\ Cardinality(Calls("update_learning_rate")) >= 2

----------------------------------------------------------------------------
(* C3 *)

\* the rank of step k among the steps `among`
Rank(among, k) == Cardinality({l \in among : l <= k})

\* C3: within one epoch the number of optimize_parameters() calls is the number
\* of batches the dataset yields; the batches are consumed in the yielded order,
\* one set_input then one optimize_parameters per batch; each step adds exactly
\* batch_size to total_iters and epoch_iter, also for a partial final batch.
C3_OneStepPerBatch ==
    IsTrainRun =>
        LET steps == Steps
            EpochSteps(e) == {k \in steps : log[k].epoch = e}
        IN  /\ \A e \in FinishedEpochs : Cardinality(EpochSteps(e)) = Len(dataset)
            /\ pc = "batch_loop" => Cardinality(EpochSteps(epoch)) = pos
            /\ Cardinality(Calls("set_input")) = Cardinality(steps)
            /\ \A k \in steps :
                LET n == Rank(EpochSteps(log[k].epoch), k)
                IN  /\ k > 1
                    /\ log[k - 1].op = "set_input"
                    /\ log[k - 1].args[1] = dataset[n]
                    /\ log[k].i = n - 1
                    /\ log[k].total_iters = opt.batch_size * Rank(steps, k)
                    /\ log[k].epoch_iter = opt.batch_size * n
            /\ total_iters = opt.batch_size * Cardinality(steps)

\* a finished run of two epochs or more whose last batch is a partial one
C3_Witness ==
    /\ IsTrainRun /\ pc = "done"
    /\ Cardinality(ExecutedEpochs) >= 2
    /\ Len(dataset) >= 2
    /\ Last(dataset).size < opt.batch_size
    /\ Cardinality(Steps) >= 2 * Len(dataset)

----------------------------------------------------------------------------
(* C4 *)

\* C4: total_iters starts at 0 and never decreases: a step leaves it alone or
\* adds batch_size to it; the start of an epoch resets epoch_iter to 0 and
\* leaves total_iters as it is.
C4_TotalItersMonotone ==
    /\ total_iters = 0
    /\ [][ /\ total_iters' >= total_iters
           /\ total_iters' \in {total_iters, total_iters + opt.batch_size}
           /\ pc = "epoch_loop" /\ pc' = "batch_loop" =>
                /\ total_iters' = total_iters
                /\ epoch_iter' = 0 ]_vars

\* inside a later epoch, with steps made in it and in earlier ones
C4_Witness ==
    /\ IsTrainRun /\ pc = "batch_loop"
    /\ epoch > EpochRangeStart
    /\ epoch_iter > 0
    /\ total_iters > epoch_iter

----------------------------------------------------------------------------
(* C5 *)

IsReset(c) == c.op = "reset"
IsTensorboard(c) == c.op = "save_to_tensorboard_writer"

\* the epoch numbers of the calls of a kind, in the order the calls were made
EpochsOf(calls) == [k \in 1..Len(calls) |-> calls[k].epoch]

\* epoch_count, epoch_count + 1, ..., n_epochs + n_epochs_decay of the configuration
ExpectedEpochs ==
    LET lo == opt0.epoch_count
        hi == opt0.n_epochs + opt0.n_epochs_decay
    IN  [k \in 1..(IF hi >= lo THEN hi - lo + 1 ELSE 0) |-> lo + k - 1]

IsPrefix(a, b) == Len(a) <= Len(b) /\ a = SubSeq(b, 1, Len(a))

\* C5: train() executes the epochs epoch_count .. n_epochs + n_epochs_decay,
\* each once, in increasing order, upper bound included; when epoch_count is
\* above the upper bound no epoch runs: no learning-rate update, no
\* optimization step, no checkpoint.
C5_EpochRangeInclusive ==
    IsTrainRun =>
        /\ IsPrefix(EpochsOf(SelectSeq(log, IsReset)), ExpectedEpochs)
        /\ IsPrefix(EpochsOf(SelectSeq(log, IsTensorboard)), ExpectedEpochs)
        /\ pc = "done" =>
            /\ EpochsOf(SelectSeq(log, IsReset)) = ExpectedEpochs
            /\ EpochsOf(SelectSeq(log, IsTensorboard)) = ExpectedEpochs
            /\ ExpectedEpochs = << >> =>
                /\ Calls("update_learning_rate") = {}
                /\ Steps = {}
                /\ Calls("save_networks") = {}
                /\ ckpt = {}

\* a finished run over three epochs
C5_Witness ==
    /\ IsTrainRun /\ pc = "done"
    /\ Len(ExpectedEpochs) = 3
    /\ Cardinality(Calls("reset")) = 3

----------------------------------------------------------------------------
(* C6 *)

\* the configuration of scenario A
ScenarioA(o) ==
    /\ o.isTrain
    /\ o.epoch_count = 1 /\ o.n_epochs = 2 /\ o.n_epochs_decay = 0
    /\ o.batch_size = 1
    /\ o.save_latest_freq = 1000000

\* C6: scenario A (epoch_count=1, n_epochs=2, n_epochs_decay=0, batch_size=1,
\* save_latest_freq=1000000, 3 training examples): a complete run makes 2
\* update_learning_rate calls and 6 optimize_parameters calls, the save_latest
\* cadence never fires, and total_iters ends at 6.
C6_ScenarioA ==
    ScenarioA(opt0) /\ pc # "main" /\ Len(dataset) = 3 =>
        /\ CallsAt("save_networks", 91) = {}
        /\ Calls("save_atme_images") = {}
        /\ pc = "done" =>
            /\ Cardinality(Calls("update_learning_rate")) = 2
            /\ Cardinality(Steps) = 6
            /\ total_iters = 6

\* the end of a run of scenario A
C6_Witness ==
    /\ ScenarioA(opt0) /\ pc = "done" /\ Len(dataset) = 3
    /\ \A b \in 1..3 : dataset[b].size = 1
    /\ Steps # {}

----------------------------------------------------------------------------
(* C7 *)

\* C7: in test(), the volume of a case with S slices has S slots of size
\* vol_cube_dim x vol_cube_dim, all zero at first; in the slice loop the slots
\* of the slices done hold the first-channel output of the inference on that
\* slice of that case, each written once, and the others still hold zeros; so
\* when the loop ends every slot j holds the output for slice j.
C7_VolumeSlots ==
    ~IsTrainRun /\ pc = "slice_loop" =>
        LET S == Len(dataset)
            D == opt.vol_cube_dim
        IN  /\ dataset = TestSlices(i, S)
            /\ gen_vol.shape = <<S, D, D>>
            /\ Len(gen_vol.data) = S
            /\ pos > 0 =>
                /\ model.input = dataset[pos]
                /\ gen_vol.data[pos] = model.fake_B[1][1]
            /\ \A k \in 1..S :
                IF k <= pos
                THEN /\ gen_vol.data[k] = NetOut([case |-> i, idx |-> k - 1], 0, D)
                     /\ gen_vol.writes[k] = 1
                ELSE /\ gen_vol.data[k] = Zeros2D(D)
                     /\ gen_vol.writes[k] = 0

\* the slice loop of the second case has ended, with two slices or more
C7_Witness ==
    /\ ~IsTrainRun /\ pc = "slice_loop"
    /\ i >= 1
    /\ Len(dataset) >= 2
    /\ pos = Len(dataset)

----------------------------------------------------------------------------
(* C8 *)

\* the (global_min, global_max) a create_atme_test_dataset call was given
RangeSeen(x) == <<log[x].args[1], log[x].args[2]>>

\* C8: in test(), when global_min and global_max are both 0 at the start,
\* find_grayscale_limits is invoked once, before the first case, and every
\* case sees the pair it returned (also when that pair is (0, 0)); otherwise it
\* is never invoked and every case sees the configured values.
C8_GrayRangeOnce ==
    ~IsTrainRun =>
        /\ pc = "main" => Calls("find_grayscale_limits") = {}
        /\ pc # "main" =>
            IF opt0.global_min = 0 /\ opt0.global_max = 0
            THEN /\ Calls("find_grayscale_limits") = {1}
                 /\ <<opt.global_min, opt.global_max>> = log[1].args[2]
                 /\ \A x \in Calls("create_atme_test_dataset") :
                        RangeSeen(x) = log[1].args[2]
            ELSE /\ Calls("find_grayscale_limits") = {}
                 /\ <<opt.global_min, opt.global_max>>
                        = <<opt0.global_min, opt0.global_max>>
                 /\ \A x \in Calls("create_atme_test_dataset") :
                        RangeSeen(x) = <<opt0.global_min, opt0.global_max>>

\* a finished evaluation of two cases whose computed range was (0, 0)
C8_Witness ==
    /\ ~IsTrainRun /\ pc = "done"
    /\ opt0.global_min = 0 /\ opt0.global_max = 0
    /\ Calls("find_grayscale_limits") # {}
    /\ log[1].args[2] = <<0, 0>>
    /\ Cardinality(Calls("create_atme_test_dataset")) = 2

----------------------------------------------------------------------------
(* C9 *)

\* C9: when the save_latest cadence fires in train() and batch_size is not 1,
\* the slice index passed to save_atme_images lies in [0, batch_size): it is
\* >= 0 and strictly less than batch_size.
C9_SliceNumBelowBatchSize ==
    IsTrainRun /\ opt.batch_size # 1 /\ slice_num.bound =>
        /\ 0 <= slice_num.val
        /\ slice_num.val < opt.batch_size

----------------------------------------------------------------------------
(* C10 *)

\* the save_networks calls among `saves` made at the end of epoch e (lines 99-100)
EpochEndSaves(saves, e) ==
    {x \in saves : log[x].line \in {99, 100} /\ log[x].epoch = e}

----------------------------------------------------------------------------
(* C11 *)

\* C11: every epoch of train() whose body has run to its end made exactly one
\* save_D_losses call and exactly one save_to_tensorboard_writer(epoch, losses)
\* call, whatever the cadences and save_epoch_freq decided; both come after the
\* last optimization step of the epoch and after the epoch-level checkpoint
\* (when one was made), the D-loss call first; the tensorboard call is keyed
\* by the epoch's number and both carry the losses of the model as the epoch
\* left it. An epoch still in its batch loop has made neither call.
C11_EpochLogsAlways ==
    IsTrainRun =>
        LET steps == Steps
            saves == Calls("save_networks")
            dls   == Calls("save_D_losses")
            tbs   == Calls("save_to_tensorboard_writer")
        IN  /\ \A x \in dls \cup tbs : log[x].epoch \in FinishedEpochs
            /\ \A e \in FinishedEpochs :
                \E d \in dls, w \in tbs :
                    /\ {x \in dls : log[x].epoch = e} = {d}
                    /\ {x \in tbs : log[x].epoch = e} = {w}
                    /\ d < w
                    /\ log[w].args[1] = e
                    /\ log[d].args[1] = log[w].args[2]
                    /\ \A k \in steps : log[k].epoch = e => k < d
                    /\ \A x \in saves : log[x].epoch = e => x < d
                    /\ log[d].args[1].n_opt = Cardinality({k \in steps : k < d})

\* a finished run with batches in which one epoch made the epoch-level
\* checkpoint and another did not, and both wrote their two logs
C11_Witness ==
    /\ IsTrainRun /\ pc = "done"
    /\ Len(dataset) >= 1
    /\ \E e1, e2 \in FinishedEpochs :
        /\ e1 % opt.save_epoch_freq = 0
        /\ e2 % opt.save_epoch_freq # 0
        /\ \E w \in Calls("save_to_tensorboard_writer") : log[w].epoch = e2
        /\ \E d \in Calls("save_D_losses") : log[d].epoch = e1

----------------------------------------------------------------------------
(* C12 *)

\* C12: test() takes the cases one after the other in the order of the
\* manifest; for each case it constructs a new model (never one an earlier
\* case had), calls setup and then eval() on it, and only then makes the
\* set_input/test() calls of that case, all of them on that model; the
\* evaluation never calls update_learning_rate, optimize_parameters or
\* save_networks.
C12_FreshEvalModelPerCase ==
    ~IsTrainRun =>
        LET starts  == Calls("create_atme_test_dataset")
            creates == Calls("create_model")
            uses    == Calls("set_input") \cup Calls("test")
        IN  /\ Calls("update_learning_rate") = {}
            /\ Calls("optimize_parameters") = {}
            /\ Calls("save_networks") = {}
            /\ ckpt = {}
            /\ Cardinality(starts) = case_pos
            /\ Cardinality(creates) = case_pos
            /\ \A a \in 1..(Len(log) - 1) : log[a].i <= log[a + 1].i
            /\ \A x \in starts :
                LET c == log[x].i
                IN  /\ Cardinality({y \in starts : y < x}) = c
                    /\ log[x].args[3] = cases_paths[c + 1]
                    /\ x + 3 <= Len(log)
                    /\ log[x + 1].op = "create_model"
                    /\ log[x + 2].op = "setup"
                    /\ log[x + 3].op = "eval"
                    /\ log[x + 2].model = log[x + 1].model
                    /\ log[x + 3].model = log[x + 1].model
                    /\ \A y \in creates : y < x => log[y].model # log[x + 1].model
            /\ \A u \in uses :
                \E x \in starts :
                    /\ log[x].i = log[u].i
                    /\ x + 3 < u
                    /\ log[u].model = log[x + 1].model
            /\ pc = "slice_loop" =>
                /\ \E x \in starts : log[x].i = i /\ model.id = log[x + 1].model
                /\ model.is_setup /\ model.is_eval
                /\ model.n_opt = 0 /\ model.n_lr = 0

\* a finished evaluation of two cases, with slices run in both
C12_Witness ==
    /\ ~IsTrainRun /\ pc = "done"
    /\ Len(cases_paths) = 2
    /\ \E u, v \in Calls("test") :
        /\ log[u].i = 0 /\ log[v].i = 1
        /\ log[u].model # log[v].model

----------------------------------------------------------------------------
(* C13 *)

\* the cases whose body has run to its end
CompletedCases ==
    IF IsTrainRun THEN {} ELSE {c \in 0..(case_pos - 1) : pc # "slice_loop" \/ c < i}

\* the directories directly under <data_dir>/generation
GenerationDirs ==
    LET root == PathJoin(opt.data_dir, <<"generation">>)
    IN  {d \in dirs : Len(d) = Len(root) + 1 /\ SubSeq(d, 1, Len(root)) = root}

\* the file of that path, as a set (empty when there is none)
FileAt(path) == {f \in files : f.path = path}

\* C13: for every case i of test() that completes, crop_volume is applied
\* once, after all the slices of the case were written into the volume (each
\* slot once); the cropped volume is what torch.save then writes to
\* case_<i>/atme_vol.pt; case_<i>/atme_vol.nii.gz is written, with the same
\* volume, iff save_nifti is set; a case still in its slice loop has written
\* nothing. So a run over 2 cases with save_nifti unset ends with exactly the
\* directories case_0 and case_1 under generation/, each holding atme_vol.pt
\* and no .nii.gz file.
C13_CropThenPersist ==
    ~IsTrainRun =>
        LET crops  == Calls("crop_volume")
            tests  == Calls("test")
            niftis == Calls("save_nifti")
            done   == CompletedCases
            Pt(c)  == PathJoin(CaseSaveDir(opt, c), <<"atme_vol.pt">>)
            Nii(c) == PathJoin(CaseSaveDir(opt, c), <<"atme_vol.nii.gz">>)
        IN  /\ \A x \in crops \cup Calls("torch.save") \cup niftis : log[x].i \in done
            /\ Cardinality(files) = Cardinality(done) * (IF opt.save_nifti THEN 2 ELSE 1)
            /\ pc # "main" =>
                GenerationDirs = {CaseSaveDir(opt, c) : c \in 0..(case_pos - 1)}
            /\ \A c \in done :
                \E x \in crops, f \in FileAt(Pt(c)) :
                    LET vol == f.content
                        S   == vol.shape[1]
                    IN  /\ {y \in crops : log[y].i = c} = {x}
                        /\ \A u \in tests : log[u].i = c => u < x
                        /\ Cardinality({u \in tests : log[u].i = c}) = S
                        /\ vol.crops = 1
                        /\ \A k \in 1..S :
                            /\ vol.writes[k] = 1
                            /\ vol.data[k] = NetOut([case |-> c, idx |-> k - 1], 0,
                                                    opt.vol_cube_dim)
                        /\ x + 1 <= Len(log)
                        /\ log[x + 1].op = "torch.save"
                        /\ log[x + 1].args[1] = Pt(c)
                        /\ IF opt.save_nifti
                           THEN /\ x + 2 <= Len(log)
                                /\ log[x + 2].op = "save_nifti"
                                /\ log[x + 2].args[1] = Nii(c)
                                /\ {y \in niftis : log[y].i = c} = {x + 2}
                                /\ \E g \in FileAt(Nii(c)) : g.content = vol
                           ELSE /\ {y \in niftis : log[y].i = c} = {}
                                /\ FileAt(Nii(c)) = {}
            /\ pc = "done" /\ Len(cases_paths) = 2 /\ ~opt.save_nifti =>
                /\ GenerationDirs = {CaseSaveDir(opt, 0), CaseSaveDir(opt, 1)}
                /\ {f.path : f \in files} = {Pt(0), Pt(1)}

\* the end of an evaluation of two cases with slices, save_nifti unset
C13_Witness ==
    /\ ~IsTrainRun /\ pc = "done"
    /\ Len(cases_paths) = 2
    /\ ~opt.save_nifti
    /\ Cardinality(Calls("crop_volume")) = 2
    /\ Cardinality(files) = 2
    /\ \A f \in files : f.content.shape[1] >= 2

\* the end of an evaluation that wrote the .nii.gz file of a case
C13_WitnessNifti ==
    /\ ~IsTrainRun /\ pc = "done"
    /\ opt.save_nifti
    /\ Calls("save_nifti") # {}

----------------------------------------------------------------------------
(* C14 *)

\* C14: neither loop retries or recovers. Once a collaborator call (dataset
\* iteration, a model call, a visualizer call, a file write) has raised in
\* train() or test(), the run is aborted: the raising call is the last entry of
\* the log for good, no step of either loop is possible any more, and what
\* was persisted by the calls that returned before it stays as written: for
\* every tag the checkpoint of the last returned save_networks(tag), and the
\* file of every returned torch.save / save_nifti.
C14_AbortIsFinal ==
    LET raises == Calls("raise")
        steps  == Steps
        saves  == Calls("save_networks")
        writes == Calls("torch.save") \cup Calls("save_nifti")
    IN  /\ (pc = "aborted") = (raises # {})
        /\ raises \subseteq {Len(log)}
        /\ pc = "aborted" => ~ENABLED NextFail
        /\ Cardinality(ckpt) = Cardinality({log[x].args[1] : x \in saves})
        /\ \A x \in saves :
            (\A y \in saves : y > x => log[y].args[1] # log[x].args[1])
                => \E c \in ckpt :
                    /\ c.tag = log[x].args[1]
                    /\ c.at = x
                    /\ c.n_opt = Cardinality({k \in steps : k < x})
        /\ Cardinality(files) = Cardinality(writes)
        /\ \A x \in writes :
            \E f \in files :
                /\ f.path = log[x].args[1]
                /\ f.content.crops = 1
                /\ Cardinality({u \in Calls("test") : log[u].i = log[x].i})
                        = f.content.shape[1]

\* a training run aborted in a later epoch: the checkpoint an earlier epoch
\* wrote is still there
C14_Witness ==
    /\ IsTrainRun /\ pc = "aborted"
    /\ Last(log).op = "raise"
    /\ Len(dataset) >= 1
    /\ epoch > EpochRangeStart
    /\ \E c \in ckpt : c.epoch < epoch

\* an evaluation aborted in its second case: the volume of the first case is
\* still there
C14_WitnessTest ==
    /\ ~IsTrainRun /\ pc = "aborted"
    /\ Last(log).op = "raise"
    /\ i = 1
    /\ \E f \in files : f.content.shape[1] >= 2

----------------------------------------------------------------------------
(* C15 *)

\* C15: the configuration is consumed read-only by both loops: no field of the
\* configuration passed to train() or test() has, after or at any point during
\* the call, a value other than the one it had when the call started.
C15_ConfigReadOnly == opt = opt0

----------------------------------------------------------------------------
(* C16 *)

\* C16: whenever the save_latest cadence fires in train(), at the counter value
\* t, the weights are saved under exactly one tag: 'iter_<t>' when save_by_iter
\* is set, 'latest' otherwise; that save_networks call comes before the
\* sample-visualization save (save_atme_images) of the same firing; a step at
\* which the cadence does not fire saves under no tag.
C16_SaveLatestTag ==
    IsTrainRun =>
        LET steps == Steps
            saves == CallsAt("save_networks", 91)
            imgs  == CallsAt("save_atme_images", 94)
        IN  \A k \in steps :
                LET t    == log[k].total_iters
                    mine == {x \in saves : log[x].total_iters = t}
                IN  IF t % opt.save_latest_freq = 0
                    THEN \E x \in mine :
                            /\ mine = {x}
                            /\ k < x
                            /\ log[x].args = << IF opt.save_by_iter THEN Tag("iter_", t)
                                                ELSE Tag("latest", 0) >>
                            /\ {y \in imgs : log[y].total_iters = t} = {x + 2}
                            /\ log[x + 2].args[2] = t
                            /\ opt.save_by_iter =>
                                /\ \E c \in ckpt : c.tag = Tag("iter_", t) /\ c.at = x
                                /\ \A c \in ckpt : c.tag # Tag("latest", 0) \/ c.at # x
                    ELSE mine = {}

\* a finished run with save_by_iter set whose cadence fired at two counter
\* values, and a step at which it did not fire
C16_Witness ==
    /\ IsTrainRun /\ pc = "done"
    /\ opt.save_by_iter
    /\ \E x, y \in CallsAt("save_networks", 91) :
        /\ x < y
        /\ log[x].args[1].kind = "iter_"
        /\ log[x].args[1].n < log[y].args[1].n
    /\ \E k \in Steps : log[k].total_iters % opt.save_latest_freq # 0

----------------------------------------------------------------------------
(* C17 *)

\* train() or test() has returned (COMPLETE) or an exception has left it (ABORTED)
Ended == pc \in {"done", "aborted"}

\* a step of train() moves on in the order (epoch, batch): it ends the run,
\* takes the next epoch, or, within the epoch, takes the next batch or leaves
\* the batch loop
TrainAdvances ==
    \/ next_epoch' = next_epoch + 1 /\ pc = "epoch_loop"
    \/ /\ next_epoch' = next_epoch
       /\ pc = "batch_loop"
       /\ \/ pc' = "batch_loop" /\ pos' = pos + 1
          \/ pc' = "epoch_loop" /\ pos = Len(dataset)

\* a step of test() moves on in the order (case, slice)
TestAdvances ==
    \/ case_pos' = case_pos + 1 /\ pc = "case_loop"
    \/ /\ case_pos' = case_pos
       /\ pc = "slice_loop"
       /\ \/ pc' = "slice_loop" /\ pos' = pos + 1
          \/ pc' = "case_loop" /\ pos = Len(dataset)

\* C17: with a finite epoch range, finitely many batches per epoch, finitely
\* many cases and slices, and collaborators that return or raise, every run of
\* train() and of test() eventually reaches COMPLETE or ABORTED; until then a
\* step is always possible (the loop never waits or pauses) and every step
\* moves on to the next epoch, batch, case or slice: none is repeated.
C17_Terminates ==
    /\ <>Ended
    /\ [](~Ended => ENABLED <<NextFail>>_vars)
    /\ [][ \/ pc = "main"
           \/ pc' \in {"done", "aborted"}
           \/ IsTrainRun /\ TrainAdvances
           \/ ~IsTrainRun /\ TestAdvances ]_vars

\* a training run that returned after two epochs or more with batches
C17_Witness ==
    /\ IsTrainRun /\ pc = "done"
    /\ Cardinality(ExecutedEpochs) >= 2
    /\ Len(dataset) >= 2
    /\ Steps # {}

----------------------------------------------------------------------------
(* C18 *)

\* C18: in test(), a preview (save_atme_images) is saved for a case at slice
\* j iff j = 100: the slice of index 100 is followed at once by
\* get_current_visuals and the preview of that slice and case, its output
\* being in the volume by then; no other slice has one, so a case has at most
\* one preview and a case of 100 slices or fewer has none.
C18_PreviewAtSlice100 ==
    ~IsTrainRun =>
        LET tests == Calls("test")
            prevs == Calls("save_atme_images")
        IN  /\ \A u \in tests :
                LET c    == log[u].i
                    s    == log[u].j
                    mine == {p \in prevs : log[p].i = c /\ log[p].j = s}
                IN  IF s = 100
                    THEN /\ mine = {u + 2}
                         /\ log[u + 1].op = "get_current_visuals"
                         /\ log[u + 1].model = log[u].model
                         /\ log[u + 2].args[2] = 100
                         /\ log[u + 2].args[3] = c
                    ELSE mine = {}
            /\ \A p \in prevs :
                /\ log[p].j = 100
                /\ p - 2 \in tests
                /\ log[p - 2].i = log[p].i
                /\ log[p - 2].j = 100
            /\ \A p, q \in prevs : log[p].i = log[q].i => p = q
            /\ \A c \in CompletedCases :
                Cardinality({u \in tests : log[u].i = c}) <= 100
                    => \A p \in prevs : log[p].i # c
            /\ pc = "slice_loop" /\ pos = 101 =>
                /\ Last(log).op = "save_atme_images"
                /\ gen_vol.writes[101] = 1
                /\ gen_vol.data[101] = model.fake_B[1][1]

\* a finished evaluation of a case of 101 slices, which has its preview, and of
\* a case of fewer slices, which has none
C18_Witness ==
    /\ ~IsTrainRun /\ pc = "done"
    /\ Len(cases_paths) = 2
    /\ Cardinality(Calls("save_atme_images")) = 1
    /\ \E u, v \in Calls("test") : log[u].i # log[v].i /\ log[u].j = 100

----------------------------------------------------------------------------
(* C19 *)

\* the step taken is a batch step at which the save_latest cadence fires
SaveLatestFiring ==
    /\ pc = "batch_loop" /\ pc' = "batch_loop"
    /\ pos' = pos + 1
    /\ total_iters' % opt.save_latest_freq = 0

\* C19: when the save_latest cadence fires in train() and batch_size is 1, the
\* slice index passed to save_atme_images is not drawn at random: it is the
\* zero-based position i of the current batch within the current epoch, which
\* is epoch_iter - 1 and so starts again from 0 in every epoch; the state
\* before the step fixes it, so two runs with the same configuration and batch
\* order pass the same index at every firing.
C19_SliceNumDeterministic ==
    [][ IsTrainRun /\ opt.batch_size = 1 /\ SaveLatestFiring =>
            /\ slice_num'.bound
            /\ slice_num'.val = pos
            /\ slice_num'.val = i'
            /\ slice_num'.val = epoch_iter' - 1
            /\ Last(log').op = "save_atme_images" ]_vars

\* the cadence has just fired on the first batch of a later epoch
C19_Witness ==
    /\ IsTrainRun /\ pc = "batch_loop"
    /\ opt.batch_size = 1
    /\ epoch > EpochRangeStart
    /\ total_iters % opt.save_latest_freq = 0
    /\ total_iters > epoch_iter
    /\ i = 0 /\ epoch_iter = 1
    /\ slice_num = [bound |-> TRUE, val |-> 0]
    /\ Last(log).op = "save_atme_images"

----------------------------------------------------------------------------
(* C20 *)

\* C20: in train(), t_data is defined whenever the print cadence fires,
\* whatever the (positive) print_freq and batch_size: it is assigned at the
\* steps whose counter before the increment is a multiple of print_freq, and
\* the first step of the run, with counter 0, is one. The value passed to
\* print_current_losses at a firing is the latest one measured: the one of
\* the current step exactly when print_freq divides batch_size, and the one of
\* an earlier step otherwise.
C20_TDataDefined ==
    IsTrainRun =>
        LET B == opt.batch_size
            f == opt.print_freq
        IN  /\ pc # "aborted"
            /\ total_iters > 0 => t_data.bound
            /\ t_data.bound => t_data.at % f = 0 /\ t_data.at < total_iters
            /\ \A x \in CallsAt("print_current_losses", 84) :
                LET t  == log[x].total_iters
                    at == log[x].args[4]
                IN  /\ t % f = 0
                    /\ at % f = 0
                    /\ at % B = 0
                    /\ 0 <= at /\ at <= t - B
                    /\ \A s \in (at + 1)..(t - B) : s % B # 0 \/ s % f # 0
                    /\ (at = t - B) <=> (B % f = 0)

\* a finished run in which print_freq does not divide batch_size and a firing
\* used a value measured at an earlier step, itself not the first of the run
C20_Witness ==
    /\ IsTrainRun /\ pc = "done"
    /\ opt.batch_size % opt.print_freq # 0
    /\ \E x \in CallsAt("print_current_losses", 84) :
        /\ log[x].args[4] > 0
        /\ log[x].args[4] < log[x].total_iters - opt.batch_size

----------------------------------------------------------------------------
(* C21 *)

\* the log entries made inside the epoch loop of train() (lines 57-106); each
\* carries the counters as they were when the call was made
LoopEntries == {x \in 1..Len(log) : log[x].line >= 57}

\* the calls of the three cadences (lines 76-94)
CadenceEntries == {x \in 1..Len(log) : log[x].line \in {78, 82, 84, 91, 92, 94}}

\* no cadence call is made at counter value 0, and a cadence call at counter
\* value t is made after exactly t / batch_size optimization steps
CadenceSeesSteps(steps) ==
    \A x \in CadenceEntries :
        /\ log[x].total_iters > 0
        /\ log[x].total_iters = opt.batch_size * Cardinality({k \in steps : k < x})

----------------------------------------------------------------------------
(* C22 *)

\* checkpoint c holds weights at least as recent as those of checkpoint d: it
\* was taken at an iteration count, and after a number of optimization steps,
\* at least as large
AsRecentAs(c, d) == c.total_iters >= d.total_iters /\ c.n_opt >= d.n_opt

\* C22: after any sequence of steps of train(), the checkpoint stored under
\* 'latest' (if any) was taken at an iteration count at least as large as that
\* of every epoch-numbered checkpoint, and an epoch-numbered checkpoint never
\* exists without it; when save_by_iter is not set, 'latest' exists as soon as
\* any checkpoint does and none holds more recent weights: it was taken at the
\* counter value of the last save_networks call made. (With save_by_iter set an
\* 'iter_<t>' checkpoint can be more recent than 'latest': the state
\* C22_Witness.)
C22_LatestIsNewest ==
    IsTrainRun =>
        LET latest == {c \in ckpt : c.tag = Tag("latest", 0)}
            epochs == {c \in ckpt : c.tag.kind = "epoch"}
            saves  == Calls("save_networks")
        IN  /\ Cardinality(latest) <= 1
            /\ epochs # {} => latest # {}
            /\ \A l \in latest, c \in epochs : AsRecentAs(l, c)
            /\ \A l \in latest :
                /\ l.at \in saves
                /\ log[l.at].total_iters = l.total_iters
                /\ \A x \in saves : log[x].args[1] = Tag("latest", 0) => x <= l.at
            /\ ~opt.save_by_iter =>
                /\ ckpt = latest \cup epochs
                /\ ckpt # {} => latest # {}
                /\ \A l \in latest, c \in ckpt : AsRecentAs(l, c)
                /\ \A l \in latest, x \in saves : log[x].total_iters <= l.total_iters

\* save_by_iter is set and an 'iter_<t>' checkpoint is more recent than
\* 'latest', which is as recent as the epoch-numbered one
C22_Witness ==
    /\ IsTrainRun
    /\ opt.save_by_iter
    /\ \E l, c, e \in ckpt :
        /\ l.tag = Tag("latest", 0)
        /\ e.tag.kind = "epoch"
        /\ c.tag.kind = "iter_"
        /\ l.total_iters >= e.total_iters
        /\ c.total_iters > l.total_iters
        /\ c.at > l.at

====
